---- MODULE Spec2Model ----
(***************************************************************************)
(* Verification model of LLMJapTranslator:                                 *)
(*   src/nss_file_extractor_git.py  (dialogue-block parser, folder driver) *)
(*   src/vn_translator_git.py       (fenced-JSON extraction, one-shot      *)
(*                                   repair, glossary merge, translation   *)
(*                                   driver)                               *)
(*                                                                         *)
(* Text is modelled as a sequence of tokens.  A token is either one of the *)
(* markers the code searches for with 'in' / re.findall, or an ordinary    *)
(* character.  Python's None is the one-token sequence None, whose token   *)
(* never occurs in any input.                                              *)
(***************************************************************************)
EXTENDS Integers, Sequences, FiniteSets, TLC

VARIABLES
    \* ---- process_content (nss_file_extractor_git.py) ----
    ppc,        \* position of process_content: "entries" | "lines" | "done"
    ele,        \* the record being filled for the current entry
    consumed,   \* the lines of the current entry iterated so far (history)
    processed,  \* the list process_content returns
    blocks,     \* the lines of each entry already emitted (history)
    \* ---- VnTranslator.loadJsonWithReTry (vn_translator_git.py) ----
    rpc,        \* position: "idle" | "try" | "fix" | "retry" | "return"
    r_file,     \* argument file_name
    r_index,    \* argument json_index
    arg_str,    \* argument json_str as passed in (history)
    json_str,   \* local json_str (reassigned at line 363)
    json_data,  \* local json_data
    failure,    \* local failure: NoFailure or <<message>>
    err,        \* the exception bound by 'except Exception as e' at line 354
    prompt,     \* the repair prompt of line 359
    reply,      \* the generation service's answer to the repair prompt
    nLoads,     \* json.loads calls made in this invocation (history)
    nFix,       \* do_with_text calls made in this invocation (history)
    \* ---- glossary flow: create_raw_glossary, create_glossary_json,
    \*      extract_json_from_text, load_glossary ----
    gpc,            \* "raw" | "find" | "blocks" | "merge" | "load" | "done" | "crashed"
    rawFile,        \* content of raw_glossary_loc
    nChunks,        \* chunks of the summary file handled so far
    json_blocks,    \* re.findall result of line 317
    bidx,           \* enumerate index of line 319
    combined_list,  \* line 310
    failure_log,    \* line 311
    glossaryFile,   \* content of glossary_loc
    errorLogFile,   \* content of the error log file
    loaded_glossary, \* self.loaded_glossary
    \* ---- process_folder (nss_file_extractor_git.py) ----
    walked,     \* the files os.walk has yielded so far, with what became of each (history)
    outFiles,   \* the JSON files under out_path: json_path -> content
    \* ---- VnTranslator.create_raw_translation_vn_nss_json ----
    dpc,            \* "walk" | "elements" | "respond" | "loading" | "crashed"
    d_walked,       \* the files os.walk has yielded so far (history)
    d_file,         \* the file being translated
    d_index,        \* enumerate index of line 207
    element,        \* the element being translated
    response,       \* the generation service's answer to the translation prompt
    collected_json, \* line 206
    spliced,        \* for each entry of collected_json, its source element and payload (history)
    d_failure_log,  \* line 199
    translated      \* the files under raw_translate_loc: path -> file_json

parserVars == <<ppc, ele, consumed, processed, blocks>>

retryVars == <<rpc, r_file, r_index, arg_str, json_str, json_data, failure, err,
               prompt, reply, nLoads, nFix>>

glossaryVars == <<gpc, rawFile, nChunks, json_blocks, bidx, combined_list, failure_log,
                  glossaryFile, errorLogFile, loaded_glossary>>

folderVars == <<walked, outFiles>>

driverVars == <<dpc, d_walked, d_file, d_index, element, response, collected_json,
                spliced, d_failure_log, translated>>

vars == <<parserVars, retryVars, glossaryVars, folderVars, driverVars>>

-----------------------------------------------------------------------------
(* Bounds *)

\* longest entry, in lines, that process_content is fed
MaxLines == 4

\* entries of one content list that process_content is fed
MaxBlocks == 3

\* chunks of the summary file (one generation-service response each)
MaxChunks == 3

\* files one walk of the extractor's input folder yields
MaxFiles == 2

\* files one walk of the translator's input folder yields
MaxTFiles == 2

\* elements of the "content" list of one translator input file
MaxElements == 2

-----------------------------------------------------------------------------
(* Tokens *)

None == <<"None">>

LabelMarker == "[text"      \* "[text"   nss_file_extractor_git.py:57
QuoteOpen   == "(("         \* U+300C    nss_file_extractor_git.py:59
QuoteClose  == "))"         \* U+300D    nss_file_extractor_git.py:74
NameOpen    == "[["         \* U+3010    nss_file_extractor_git.py:65
NameClose   == "]]"         \* U+3011    (ordinary character for the code)
VoiceMarker == "<voice"     \* "<voice"  nss_file_extractor_git.py:67
LineBreak   == "\n"

\* Python's tok in s for a marker token
Contains(s, tok) == \E i \in 1..Len(s) : s[i] = tok

Last(s) == s[Len(s)]

\* The lines an entry may consist of (after splitlines): every marker alone
\* and in the combinations the elif chain orders, quotes closed, open, and
\* closed-then-trailing, plain lines with and without a closing quote, and
\* the empty line.
LineSet ==
    { <<>>,
      <<LabelMarker>>,
      <<LabelMarker, QuoteOpen>>,
      <<QuoteOpen, "H", QuoteClose>>,
      <<QuoteOpen, "w", QuoteClose>>,
      <<QuoteOpen, "H">>,
      <<QuoteOpen, "H", QuoteClose, "w">>,
      <<QuoteOpen, NameOpen>>,
      <<NameOpen, "N", NameClose>>,
      <<VoiceMarker>>,
      <<"w">>,
      <<"w", QuoteClose>> }

-----------------------------------------------------------------------------
(* process_content: the record and the five branches of the elif chain *)

EmptyEle == [text_label |-> None, Name |-> <<>>, voice_tag |-> <<>>, text |-> <<>>]

KeepEle(e) == e

\* lines 46-51: every entry gets a record of its own
NewEle(e) == EmptyEle

PadNameAlways(e) == Append(e.Name, None)

\* lines 60-61 / 75-76: pad Name unless it is exactly one longer than text
PadName(e) ==
    IF Len(e.Name) # Len(e.text) + 1 THEN Append(e.Name, None) ELSE e.Name

\* lines 62-63 / 77-78: pad voice tag unless it is exactly one longer than text
PadVoice(e) ==
    IF Len(e.voice_tag) # Len(e.text) + 1 THEN Append(e.voice_tag, None) ELSE e.voice_tag

OnLabelKeepFirst(e, line) ==
    IF e.text_label = None THEN [e EXCEPT !.text_label = line] ELSE e

\* line 58
OnLabel(e, line) == [e EXCEPT !.text_label = line]

\* lines 60-64
OnQuote(e, line) ==
    [e EXCEPT !.Name = PadName(e), !.voice_tag = PadVoice(e), !.text = Append(e.text, line)]

OnNameMerge(e, line) ==
    IF Len(e.Name) = 0 THEN [e EXCEPT !.Name = Append(e.Name, line)]
    ELSE [e EXCEPT !.Name[Len(e.Name)] = line]

\* line 66
OnName(e, line) == [e EXCEPT !.Name = Append(e.Name, line)]

\* lines 68-70
OnVoice(e, line) ==
    [e EXCEPT !.Name = IF Len(e.Name) # Len(e.voice_tag) + 1
                       THEN Append(e.Name, None) ELSE e.Name,
              !.voice_tag = Append(e.voice_tag, line)]

OnPlainNewSlot(e, line) ==
    IF Len(e.text) = 0
    THEN [e EXCEPT !.text = Append(e.text, line)]
    ELSE [e EXCEPT !.Name = PadName(e), !.voice_tag = PadVoice(e),
                   !.text = Append(e.text, line)]

OnPlainOverwrite(e, line) ==
    IF Len(e.text) = 0
    THEN [e EXCEPT !.text = Append(e.text, line)]
    ELSE IF Contains(Last(e.text), QuoteClose)
         THEN [e EXCEPT !.Name = PadName(e), !.voice_tag = PadVoice(e),
                        !.text = Append(e.text, line)]
         ELSE [e EXCEPT !.text[Len(e.text)] = line]

\* lines 72-81
OnPlain(e, line) ==
    IF Len(e.text) = 0
    THEN [e EXCEPT !.text = Append(e.text, line)]
    ELSE IF Contains(Last(e.text), QuoteClose)
         THEN [e EXCEPT !.Name = PadName(e), !.voice_tag = PadVoice(e),
                        !.text = Append(e.text, line)]
         ELSE [e EXCEPT !.text[Len(e.text)] = Last(e.text) \o <<LineBreak>> \o line]

\* the guards of the elif chain, lines 56-71
IsEmpty(line) == line = <<>>
IsLabel(line) == ~IsEmpty(line) /\ Contains(line, LabelMarker)
IsQuote(line) == ~IsEmpty(line) /\ ~Contains(line, LabelMarker) /\ Contains(line, QuoteOpen)
IsNameBeforeQuote(line) ==
    ~IsEmpty(line) /\ ~Contains(line, LabelMarker) /\ Contains(line, NameOpen)

IsName(line)  == /\ ~IsEmpty(line) /\ ~Contains(line, LabelMarker)
                 /\ ~Contains(line, QuoteOpen) /\ Contains(line, NameOpen)
IsVoice(line) == /\ ~IsEmpty(line) /\ ~Contains(line, LabelMarker)
                 /\ ~Contains(line, QuoteOpen) /\ ~Contains(line, NameOpen)
                 /\ Contains(line, VoiceMarker)
IsPlain(line) == /\ ~IsEmpty(line) /\ ~Contains(line, LabelMarker)
                 /\ ~Contains(line, QuoteOpen) /\ ~Contains(line, NameOpen)
                 /\ ~Contains(line, VoiceMarker)

\* one iteration of the loop of line 55
ProcessLine(e, line) ==
    IF IsEmpty(line) THEN e
    ELSE IF IsLabel(line) THEN OnLabel(e, line)
    ELSE IF IsQuote(line) THEN OnQuote(e, line)
    ELSE IF IsName(line)  THEN OnName(e, line)
    ELSE IF IsVoice(line) THEN OnVoice(e, line)
    ELSE OnPlain(e, line)

-----------------------------------------------------------------------------
(* Fenced regions: the re.findall of lines 223, 317 and 363, with re.DOTALL  *)
(* The fence of three backquotes is written +++ here.                       *)

FenceOpen == "+++json"
Fence     == "+++"
Newline   == "\n"
Whitespace == {" ", Newline}

\* first position >= i of text holding a token of toks, or 0
RECURSIVE FirstAt(_, _, _)
FirstAt(text, i, toks) ==
    IF i > Len(text) THEN 0
    ELSE IF text[i] \in toks THEN i
    ELSE FirstAt(text, i + 1, toks)

\* Leftmost, non-overlapping, non-greedy matches; the result is the list of
\* group-1 bodies.  A body ends at the next fence of the text, which may be
\* the first three characters of a following opening fence.
RECURSIVE FindAllFrom(_, _)
FindAllFrom(text, i) ==
    LET o == FirstAt(text, i, {FenceOpen}) IN
    IF o = 0 THEN <<>>
    ELSE LET c == FirstAt(text, o + 1, {Fence, FenceOpen}) IN
         IF c = 0 THEN <<>>
         ELSE <<SubSeq(text, o + 1, c - 1)>> \o FindAllFrom(text, c + 1)

FindAll(text) == FindAllFrom(text, 1)

-----------------------------------------------------------------------------
(* JSON values and json.loads over tokens *)

\* Python values json.loads can return; JNone is None (JSON null)
JNone     == [t |-> "None",  s |-> "", items |-> <<>>, fields |-> <<>>]
JFalse    == [t |-> "False", s |-> "", items |-> <<>>, fields |-> <<>>]
JStr(x)   == [t |-> "str",   s |-> x,  items |-> <<>>, fields |-> <<>>]
JList(xs) == [t |-> "list",  s |-> "", items |-> xs,   fields |-> <<>>]
JDict(f)  == [t |-> "dict",  s |-> "", items |-> <<>>, fields |-> f]

HasKey(d, k) == d.t = "dict" /\ k \in DOMAIN d.fields

\* d[k] = v on a dict
SetKey(d, k, v) ==
    JDict([x \in (DOMAIN d.fields) \cup {k} |-> IF x = k THEN v ELSE d.fields[x]])

\* A token that is a complete JSON object or scalar
AtomTokens == {"null", "k1:A", "k1:B", "k2:A", "k3", "{text}", "{text,Name,note}"}

AtomValue(tok) ==
    CASE tok = "null" -> JNone
      [] tok = "k1:A" -> JDict([japanesename |-> JStr("k1"), actualname |-> JStr("A")])
      [] tok = "k1:B" -> JDict([japanesename |-> JStr("k1"), actualname |-> JStr("B"),
                                gender |-> JStr("f")])
      [] tok = "k2:A" -> JDict([japanesename |-> JStr("k2"), actualname |-> JStr("A")])
      [] tok = "k3"   -> JDict([japanesename |-> JStr("k3")])
      [] tok = "{text}" -> JDict([text |-> JList(<<JStr("Hello"), JStr("world")>>)])
      [] tok = "{text,Name,note}" ->
             JDict(("text" :> JList(<<JStr("Hello")>>))
                   @@ ("Name" :> JList(<<JStr("X")>>))
                   @@ ("text label" :> JStr("other"))
                   @@ ("note" :> JStr("n")))

RECURSIVE SkipWs(_, _)
SkipWs(s, i) ==
    IF i <= Len(s) /\ s[i] \in Whitespace THEN SkipWs(s, i + 1) ELSE i

RECURSIVE LastNonWs(_, _)
LastNonWs(s, i) ==
    IF i >= 1 /\ s[i] \in Whitespace THEN LastNonWs(s, i - 1) ELSE i

\* str.strip()
Strip(s) == SubSeq(s, SkipWs(s, 1), LastNonWs(s, Len(s)))

NoError == [msg |-> "", pos |-> 0]
ParseOk(v, next)    == [ok |-> TRUE,  v |-> v,     next |-> next, err |-> NoError]
ParseFail(msg, pos) == [ok |-> FALSE, v |-> JNone, next |-> pos,  err |-> [msg |-> msg, pos |-> pos]]

RECURSIVE ParseValue(_, _)
RECURSIVE ParseItems(_, _, _, _)

\* a JSON value starting at or after position i
ParseValue(s, i) ==
    LET j == SkipWs(s, i) IN
    IF j > Len(s) THEN ParseFail("Expecting value", j)
    ELSE IF s[j] \in AtomTokens THEN ParseOk(AtomValue(s[j]), j + 1)
    ELSE IF s[j] = "[" THEN ParseItems(s, j + 1, <<>>, TRUE)
    ELSE ParseFail("Expecting value", j)

\* the elements of an array whose "[" has been read
ParseItems(s, i, acc, first) ==
    LET j == SkipWs(s, i) IN
    IF first /\ j <= Len(s) /\ s[j] = "]" THEN ParseOk(JList(acc), j + 1)
    ELSE LET r == ParseValue(s, j) IN
         IF ~r.ok THEN r
         ELSE LET k == SkipWs(s, r.next) IN
              IF k <= Len(s) /\ s[k] = "]" THEN ParseOk(JList(Append(acc, r.v)), k + 1)
              ELSE IF k <= Len(s) /\ s[k] = ","
                   THEN ParseItems(s, k + 1, Append(acc, r.v), FALSE)
                   ELSE ParseFail("Expecting , delimiter", k)

\* json.loads(s): [ok, v, err]
JsonLoads(s) ==
    LET r == ParseValue(s, 1) IN
    IF ~r.ok THEN r
    ELSE LET k == SkipWs(s, r.next) IN
         IF k <= Len(s) THEN ParseFail("Extra data", k) ELSE r

-----------------------------------------------------------------------------
(* VnTranslator.loadJsonWithReTry *)

NoFailure == <<>>
NoPrompt  == [json |-> <<>>, error |-> NoError]

\* re.findall(...)[0] on an empty list
IndexError == [msg |-> "list index out of range", pos |-> 0]

\* getFixJsonPrompt: FIX_JSON_PROMPT_TEMPLATE.format(incorrectJson, error)
GetFixJsonPrompt(incorrectJson, error) == [json |-> incorrectJson, error |-> error]

FailureMessageNoError(index, file, str, e) ==
    [index |-> index, file |-> file, body |-> str, error |-> NoError]

\* lines 368-369: the f-string names the index, the file, json_str and e
FailureMessage(index, file, str, e) ==
    [index |-> index, file |-> file, body |-> str, error |-> e]

RetryAgainOnFailure(failed) == IF failed THEN "fix" ELSE "return"

\* after the inner try/except the function falls through to line 371
AfterRetry(failed) == "return"

\* what the generation service may answer to a repair prompt
RepairReplies ==
    { <<FenceOpen, "[", "k2:A", "]", Fence>>,
      <<FenceOpen, "[", "k2:A", Fence>>,
      <<"x">>,
      <<FenceOpen, "[", Fence, FenceOpen, "[", "]", Fence>>,
      <<"x", FenceOpen, " ", "[", "k1:B", "]", " ", Fence, FenceOpen, "x", Fence>>,
      <<FenceOpen, "{text}", Fence>> }

RetryIdle ==
    /\ rpc = "idle"
    /\ r_file = ""
    /\ r_index = 0
    /\ arg_str = <<>>
    /\ json_str = <<>>
    /\ json_data = JNone
    /\ failure = NoFailure
    /\ err = NoError
    /\ prompt = NoPrompt
    /\ reply = <<>>
    /\ nLoads = 0
    /\ nFix = 0

\* the call: lines 343, 349, 350
CallLoadJsonWithReTry(file, index, str) ==
    /\ rpc = "idle"
    /\ rpc' = "try"
    /\ r_file' = file
    /\ r_index' = index
    /\ arg_str' = str
    /\ json_str' = str
    /\ json_data' = JNone
    /\ failure' = NoFailure
    /\ err' = NoError
    /\ prompt' = NoPrompt
    /\ reply' = <<>>
    /\ nLoads' = 0
    /\ nFix' = 0

\* lines 351-355
TryLoad ==
    /\ rpc = "try"
    /\ LET r == JsonLoads(Strip(json_str)) IN
         /\ nLoads' = nLoads + 1
         /\ IF r.ok
            THEN json_data' = r.v /\ err' = err /\ rpc' = "return"
            ELSE json_data' = json_data /\ err' = r.err /\ rpc' = "fix"
    /\ UNCHANGED <<r_file, r_index, arg_str, json_str, failure, prompt, reply, nFix>>

\* lines 359-360
RequestFix ==
    /\ rpc = "fix"
    /\ prompt' = GetFixJsonPrompt(Strip(json_str), err)
    /\ \E resp \in RepairReplies : reply' = resp
    /\ nFix' = nFix + 1
    /\ rpc' = "retry"
    /\ UNCHANGED <<r_file, r_index, arg_str, json_str, json_data, failure, err, nLoads>>

RetryLoadLastRegion ==
    /\ rpc = "retry"
    /\ LET found == FindAll(reply) IN
         IF found = <<>>
         THEN /\ failure' = <<FailureMessage(r_index, r_file, json_str, IndexError)>>
              /\ rpc' = AfterRetry(TRUE)
              /\ UNCHANGED <<json_str, json_data, nLoads>>
         ELSE LET r == JsonLoads(Strip(Last(found))) IN
              /\ json_str' = Last(found)
              /\ nLoads' = nLoads + 1
              /\ rpc' = AfterRetry(~r.ok)
              /\ IF r.ok
                 THEN json_data' = r.v /\ failure' = failure
                 ELSE /\ json_data' = json_data
                      /\ failure' = <<FailureMessage(r_index, r_file, Last(found), r.err)>>
    /\ UNCHANGED <<r_file, r_index, arg_str, err, prompt, reply, nFix>>

\* lines 361-370
RetryLoad ==
    /\ rpc = "retry"
    /\ LET found == FindAll(reply) IN
         IF found = <<>>
         THEN /\ failure' = <<FailureMessage(r_index, r_file, json_str, IndexError)>>
              /\ rpc' = AfterRetry(TRUE)
              /\ UNCHANGED <<json_str, json_data, nLoads>>
         ELSE LET r == JsonLoads(Strip(found[1])) IN
              /\ json_str' = found[1]
              /\ nLoads' = nLoads + 1
              /\ rpc' = AfterRetry(~r.ok)
              /\ IF r.ok
                 THEN json_data' = r.v /\ failure' = failure
                 ELSE /\ json_data' = json_data
                      /\ failure' = <<FailureMessage(r_index, r_file, found[1], r.err)>>
    /\ UNCHANGED <<r_file, r_index, arg_str, err, prompt, reply, nFix>>

\* line 371 seen from the caller: the frame is left, its locals are gone
ReturnFromRetry ==
    /\ rpc = "return"
    /\ rpc' = "idle"
    /\ r_file' = ""
    /\ r_index' = 0
    /\ arg_str' = <<>>
    /\ json_str' = <<>>
    /\ json_data' = JNone
    /\ failure' = NoFailure
    /\ err' = NoError
    /\ prompt' = NoPrompt
    /\ reply' = <<>>
    /\ nLoads' = 0
    /\ nFix' = 0

-----------------------------------------------------------------------------
(* Glossary: create_raw_glossary, extract_json_from_text,                   *)
(* create_glossary_json, load_glossary                                      *)

RawGlossaryLoc == "raw_glossary.txt"    \* vn_translator_git.py:436

\* what the generation service may answer to a glossary-extraction prompt
GlossaryReplies ==
    { <<FenceOpen, "[", "k1:A", "]", Fence>>,
      <<FenceOpen, "[", "k1:B", ",", "k2:A", "]", Fence>>,
      <<FenceOpen, "[", "k2:A", Fence>>,
      <<"x">>,
      <<"x", FenceOpen, " ", "[", "k3", "]", " ", Fence, "x">>,
      <<FenceOpen, "k1:A", Fence>>,
      <<FenceOpen, "null", Fence>>,
      <<FenceOpen, "[", "k1:A", "]">> }

CollectAlways(list, data, fail) == Append(list, data)

\* lines 324-330: json_data joins combined_list only when there is no failure
CollectData(list, data, fail) ==
    IF fail # NoFailure THEN list ELSE Append(list, data)

\* lines 324-326
CollectFailure(log, fail) ==
    IF fail # NoFailure THEN Append(log, fail[1]) ELSE log

\* the elements the two loops of lines 167-168 visit, in order
RECURSIVE Flatten(_)
Flatten(data) ==
    IF data = <<>> THEN <<>> ELSE Head(data).items \o Flatten(Tail(data))

\* lines 167-170 run without raising: every batch is a list of dicts that
\* have the key "japanesename"
WellFormedBatches(data) ==
    \A i \in 1..Len(data) :
        /\ data[i].t = "list"
        /\ \A j \in 1..Len(data[i].items) : HasKey(data[i].items[j], "japanesename")

NameOf(e) == e.fields["japanesename"]

\* lines 171-174
WithDefaults(e) ==
    LET g == IF HasKey(e, "gender") THEN e ELSE SetKey(e, "gender", JNone)
    IN  IF HasKey(g, "ischar") THEN g ELSE SetKey(g, "ischar", JFalse)

RECURSIVE KeepAllFrom(_, _, _)
KeepAllFrom(flat, names_read, out) ==
    IF flat = <<>> THEN out
    ELSE KeepAllFrom(Tail(flat), names_read, Append(out, WithDefaults(Head(flat))))

\* lines 165-176
RECURSIVE MergeFrom(_, _, _)
MergeFrom(flat, names_read, out) ==
    IF flat = <<>> THEN out
    ELSE IF NameOf(Head(flat)) \notin names_read
         THEN MergeFrom(Tail(flat), names_read \cup {NameOf(Head(flat))},
                        Append(out, WithDefaults(Head(flat))))
         ELSE MergeFrom(Tail(flat), names_read, out)

\* processed_json_eles for the list of batches read at line 162
MergeEntries(data) == MergeFrom(Flatten(data), {}, <<>>)

\* lines 187-192 run without raising
Loadable(entries) ==
    \A i \in 1..Len(entries) :
        /\ HasKey(entries[i], "japanesename")
        /\ HasKey(entries[i], "actualname")
        /\ HasKey(entries[i], "gender")

\* lines 187-192: later assignments to the same key overwrite earlier ones
RECURSIVE LoadFrom(_, _)
LoadFrom(entries, g) ==
    IF entries = <<>> THEN g
    ELSE LET e == Head(entries)
             k == NameOf(e).s
         IN  LoadFrom(Tail(entries),
                      [x \in (DOMAIN g) \cup {k} |->
                          IF x = k THEN [actualname |-> e.fields["actualname"],
                                         gender     |-> e.fields["gender"]]
                          ELSE g[x]])

GlossaryIdle ==
    /\ gpc = "idle"
    /\ rawFile = <<>>
    /\ nChunks = 0
    /\ json_blocks = <<>>
    /\ bidx = 0
    /\ combined_list = <<>>
    /\ failure_log = <<>>
    /\ glossaryFile = <<>>
    /\ errorLogFile = <<>>
    /\ loaded_glossary = <<>>

-----------------------------------------------------------------------------
(* process_content on a whole content, extract_pre_content, process_folder *)

\* str.splitlines(): a trailing line break opens no further line
RECURSIVE SplitFrom(_, _, _, _)
SplitFrom(s, i, cur, out) ==
    IF i > Len(s) THEN (IF cur # <<>> THEN Append(out, cur) ELSE out)
    ELSE IF s[i] = LineBreak THEN SplitFrom(s, i + 1, <<>>, Append(out, cur))
    ELSE SplitFrom(s, i + 1, Append(cur, s[i]), out)

SplitLines(s) == SplitFrom(s, 1, <<>>, <<>>)

\* lines 44-83 for one entry
RECURSIVE ProcessLines(_, _)
ProcessLines(e, lines) ==
    IF lines = <<>> THEN e
    ELSE ProcessLines(ProcessLine(e, Head(lines)), Tail(lines))

ProcessEntry(entry) == ProcessLines(EmptyEle, SplitLines(entry))

\* line 27: the value returned when reading or decoding raises
EncodingError ==
    [kind |-> "str",
     val  |-> <<"<", "E", "n", "c", "o", "d", "i", "n", "g", " ", "E", "r", "r", "o", "r", ">">>]

\* line 25: the list re.findall returns
PreList(entries) == [kind |-> "list", val |-> entries]

\* 'for entry in content' (line 42): the items of a list, the characters of a str
Entries(content) ==
    IF content.kind = "str"
    THEN [i \in 1..Len(content.val) |-> <<content.val[i]>>]
    ELSE content.val

\* 'if pre_contents' (line 95)
Truthy(content) == Len(content.val) > 0

\* process_content, lines 39-85
ProcessContent(content) ==
    [i \in 1..Len(Entries(content)) |-> ProcessEntry(Entries(content)[i])]

\* what the <PRE> regions of a readable file may hold
PreContentChoices ==
    { <<>>,
      << <<LineBreak, NameOpen, "N", NameClose, LineBreak,
           QuoteOpen, "H", QuoteClose, LineBreak>> >>,
      << <<LabelMarker, LineBreak, LineBreak, QuoteOpen, "H", LineBreak, "w", QuoteClose>>,
         <<"w">> >> }

\* the files a walk of the input folder may yield: directory, stem, extension
InputFiles ==
    { [dir |-> d, stem |-> n, ext |-> x] : d \in {"", "sub"}, n \in {"a", "b"},
                                           x \in {".nss", ".txt"} }

\* extract_pre_content, lines 17-27
ExtractPreContent(readable, pre) ==
    IF readable THEN PreList(pre) ELSE EncodingError

\* line 97: os.path.splitext(os.path.join(out_path, file_name))[0] + '.json'
JsonPath(file) == <<file.stem, ".json">>

FolderIdle ==
    /\ walked = <<>>
    /\ outFiles = <<>>

-----------------------------------------------------------------------------
(* VnTranslator.create_raw_translation_vn_nss_json *)

\* elements a translator input file may hold in its "content" list
SrcA == JDict(("text label" :> JStr("[text001]"))
              @@ ("Name" :> JList(<<JStr("N"), JNone>>))
              @@ ("voice tag" :> JList(<<JNone, JStr("v")>>))
              @@ ("text" :> JList(<<JStr("H"), JStr("w")>>)))

SrcB == JDict(("text label" :> JNone)
              @@ ("Name" :> JList(<<>>))
              @@ ("voice tag" :> JList(<<>>))
              @@ ("text" :> JList(<<JStr("w")>>)))

SrcEmpty == JDict(<<>>)

SourceElements == {SrcA, SrcB, SrcEmpty}

\* 'if element' (line 209)
TruthyElement(e) == DOMAIN e.fields # {}

\* what the generation service may answer to a translation prompt
TranslationReplies ==
    { <<FenceOpen, "{text}", Fence>>,
      <<"x", FenceOpen, Newline, "{text,Name,note}", Newline, Fence>>,
      <<"x">>,
      <<FenceOpen, "[", "{text}", "]", Fence>>,
      <<FenceOpen, "null", Fence>>,
      <<FenceOpen, "[", "{text}", Fence>> }

\* the files a walk of raw_loc may yield
TranslatorFiles ==
    { [dir |-> d, name |-> n] : d \in {"", "sub"}, n \in {"a.json", "b.json"} }

NoFile == [dir |-> "", name |-> ""]

\* lines 233-235: the three source fields are written over the payload's
Splice(json, elem) ==
    SetKey(SetKey(SetKey(json, "text label", elem.fields["text label"]),
                  "voice tag", elem.fields["voice tag"]),
           "Name", elem.fields["Name"])

\* line 242: os.path.join(self.raw_translate_loc, file_name)
TranslatedPath(file) == file.name

\* d[path] = content on the directory
WriteFile(dir, path, content) ==
    [x \in (DOMAIN dir) \cup {path} |-> IF x = path THEN content ELSE dir[x]]

DriverIdle ==
    /\ dpc = "idle"
    /\ d_walked = <<>>
    /\ d_file = NoFile
    /\ d_index = 0
    /\ element = SrcEmpty
    /\ response = <<>>
    /\ collected_json = <<>>
    /\ spliced = <<>>
    /\ d_failure_log = <<>>
    /\ translated = <<>>

-----------------------------------------------------------------------------
(* process_content as a state machine over the lines of one entry *)

ParserStart ==
    /\ ppc = "lines"
    /\ ele = EmptyEle
    /\ consumed = <<>>
    /\ processed = <<>>
    /\ blocks = <<>>

ParserInit == ParserStart /\ RetryIdle /\ GlossaryIdle /\ FolderIdle /\ DriverIdle

Take(line) ==
    /\ ppc = "lines"
    /\ Len(consumed) < MaxLines
    /\ consumed' = Append(consumed, line)
    /\ UNCHANGED <<ppc, processed, blocks, retryVars, glossaryVars, folderVars, driverVars>>

SkipEmptyLine ==
    \E line \in LineSet : IsEmpty(line) /\ Take(line) /\ ele' = ele

LabelLine ==
    \E line \in LineSet : IsLabel(line) /\ Take(line) /\ ele' = OnLabel(ele, line)

QuoteLine ==
    \E line \in LineSet : IsQuote(line) /\ Take(line) /\ ele' = OnQuote(ele, line)

NameLine ==
    \E line \in LineSet : IsName(line) /\ Take(line) /\ ele' = OnName(ele, line)

VoiceLine ==
    \E line \in LineSet : IsVoice(line) /\ Take(line) /\ ele' = OnVoice(ele, line)

PlainLine ==
    \E line \in LineSet : IsPlain(line) /\ Take(line) /\ ele' = OnPlain(ele, line)

\* line 83: the lines are exhausted, the record is emitted as it stands
EmitEle ==
    /\ ppc = "lines"
    /\ processed' = Append(processed, ele)
    /\ ppc' = "done"
    /\ UNCHANGED <<ele, consumed, blocks, retryVars, glossaryVars, folderVars, driverVars>>

ParserNext ==
    \/ SkipEmptyLine
    \/ LabelLine
    \/ QuoteLine
    \/ NameLine
    \/ VoiceLine
    \/ PlainLine
    \/ EmitEle

SpecParser == ParserInit /\ [][ParserNext]_vars

-----------------------------------------------------------------------------
(* process_content as a state machine over the entries of a content list *)

\* the lines the entries of a content list are made of
BlockLineSet ==
    { <<>>,
      <<LabelMarker>>,
      <<NameOpen, "N", NameClose>>,
      <<QuoteOpen, "H">>,
      <<"w">> }

RECURSIVE TotalLen(_)
TotalLen(bs) == IF bs = <<>> THEN 0 ELSE Len(Head(bs)) + TotalLen(Tail(bs))

BlocksInit ==
    /\ ppc = "entries"
    /\ ele = EmptyEle
    /\ consumed = <<>>
    /\ processed = <<>>
    /\ blocks = <<>>
    /\ RetryIdle /\ GlossaryIdle /\ FolderIdle /\ DriverIdle

BlocksFrame == UNCHANGED <<retryVars, glossaryVars, folderVars, driverVars>>

\* lines 42-51: the loop takes the next entry
StartEntry ==
    /\ ppc = "entries"
    /\ Len(processed) < MaxBlocks
    /\ ele' = NewEle(ele)
    /\ consumed' = <<>>
    /\ ppc' = "lines"
    /\ UNCHANGED <<processed, blocks>>
    /\ BlocksFrame

\* lines 55-81: one line of the entry
EntryLine ==
    /\ ppc = "lines"
    /\ TotalLen(blocks) + Len(consumed) < MaxLines
    /\ \E line \in BlockLineSet :
          /\ consumed' = Append(consumed, line)
          /\ ele' = ProcessLine(ele, line)
    /\ UNCHANGED <<ppc, processed, blocks>>
    /\ BlocksFrame

\* line 83: the entry's lines are exhausted
EndEntry ==
    /\ ppc = "lines"
    /\ processed' = Append(processed, ele)
    /\ blocks' = Append(blocks, consumed)
    /\ ppc' = "entries"
    /\ UNCHANGED <<ele, consumed>>
    /\ BlocksFrame

\* line 85: the entries are exhausted
ReturnProcessed ==
    /\ ppc = "entries"
    /\ ppc' = "done"
    /\ UNCHANGED <<ele, consumed, processed, blocks>>
    /\ BlocksFrame

BlocksNext ==
    \/ StartEntry
    \/ EntryLine
    \/ EndEntry
    \/ ReturnProcessed

SpecBlocks == BlocksInit /\ [][BlocksNext]_vars

-----------------------------------------------------------------------------
(* The glossary flow as a state machine *)

GlossaryInit ==
    /\ ParserStart
    /\ RetryIdle
    /\ FolderIdle
    /\ DriverIdle
    /\ gpc = "raw"
    /\ rawFile = <<>>
    /\ nChunks = 0
    /\ json_blocks = <<>>
    /\ bidx = 0
    /\ combined_list = <<>>
    /\ failure_log = <<>>
    /\ glossaryFile = <<>>
    /\ errorLogFile = <<>>
    /\ loaded_glossary = <<>>

\* create_raw_glossary, lines 147-149: one chunk, one response written
RawGlossaryChunk ==
    /\ gpc = "raw"
    /\ nChunks < MaxChunks
    /\ \E resp \in GlossaryReplies : rawFile' = rawFile \o resp \o <<Newline>>
    /\ nChunks' = nChunks + 1
    /\ UNCHANGED <<gpc, json_blocks, bidx, combined_list, failure_log, glossaryFile,
                   errorLogFile, loaded_glossary, retryVars, parserVars, folderVars, driverVars>>

\* create_raw_glossary returns; create_glossary_json enters
\* extract_json_from_text, lines 310-317
ExtractFind ==
    /\ gpc = "raw"
    /\ gpc' = "blocks"
    /\ json_blocks' = FindAll(rawFile)
    /\ combined_list' = <<>>
    /\ failure_log' = <<>>
    /\ bidx' = 0
    /\ UNCHANGED <<rawFile, nChunks, glossaryFile, errorLogFile, loaded_glossary,
                   retryVars, parserVars, folderVars, driverVars>>

\* lines 319-322
ExtractCall ==
    /\ gpc = "blocks"
    /\ bidx < Len(json_blocks)
    /\ CallLoadJsonWithReTry(RawGlossaryLoc, bidx, json_blocks[bidx + 1])
    /\ UNCHANGED <<glossaryVars, parserVars, folderVars, driverVars>>

GlossaryTryLoad    == gpc = "blocks" /\ TryLoad    /\ UNCHANGED <<glossaryVars, parserVars, folderVars, driverVars>>
GlossaryRequestFix == gpc = "blocks" /\ RequestFix /\ UNCHANGED <<glossaryVars, parserVars, folderVars, driverVars>>
GlossaryRetryLoad  == gpc = "blocks" /\ RetryLoad  /\ UNCHANGED <<glossaryVars, parserVars, folderVars, driverVars>>

\* lines 322-330: the call returns and the result is filed
ExtractCollect ==
    /\ gpc = "blocks"
    /\ ReturnFromRetry
    /\ failure_log' = CollectFailure(failure_log, failure)
    /\ combined_list' = CollectData(combined_list, json_data, failure)
    /\ bidx' = bidx + 1
    /\ UNCHANGED <<gpc, rawFile, nChunks, json_blocks, glossaryFile, errorLogFile,
                   loaded_glossary, parserVars, folderVars, driverVars>>

\* lines 333-339
ExtractWrite ==
    /\ gpc = "blocks"
    /\ rpc = "idle"
    /\ bidx = Len(json_blocks)
    /\ glossaryFile' = combined_list
    /\ errorLogFile' = IF failure_log # <<>> THEN failure_log ELSE errorLogFile
    /\ gpc' = "merge"
    /\ UNCHANGED <<rawFile, nChunks, json_blocks, bidx, combined_list, failure_log,
                   loaded_glossary, retryVars, parserVars, folderVars, driverVars>>

\* create_glossary_json, lines 159-178
MergeGlossary ==
    /\ gpc = "merge"
    /\ IF WellFormedBatches(glossaryFile)
       THEN glossaryFile' = MergeEntries(glossaryFile) /\ gpc' = "load"
       ELSE glossaryFile' = glossaryFile /\ gpc' = "crashed"
    /\ UNCHANGED <<rawFile, nChunks, json_blocks, bidx, combined_list, failure_log,
                   errorLogFile, loaded_glossary, retryVars, parserVars, folderVars, driverVars>>

\* load_glossary, lines 185-192
LoadGlossary ==
    /\ gpc = "load"
    /\ IF Loadable(glossaryFile)
       THEN loaded_glossary' = LoadFrom(glossaryFile, loaded_glossary) /\ gpc' = "done"
       ELSE loaded_glossary' = loaded_glossary /\ gpc' = "crashed"
    /\ UNCHANGED <<rawFile, nChunks, json_blocks, bidx, combined_list, failure_log,
                   glossaryFile, errorLogFile, retryVars, parserVars, folderVars, driverVars>>

GlossaryNext ==
    \/ RawGlossaryChunk
    \/ ExtractFind
    \/ ExtractCall
    \/ GlossaryTryLoad
    \/ GlossaryRequestFix
    \/ GlossaryRetryLoad
    \/ ExtractCollect
    \/ ExtractWrite
    \/ MergeGlossary
    \/ LoadGlossary

SpecGlossary == GlossaryInit /\ [][GlossaryNext]_vars

-----------------------------------------------------------------------------
(* process_folder as a state machine *)

FolderInit ==
    /\ ParserStart
    /\ RetryIdle
    /\ GlossaryIdle
    /\ DriverIdle
    /\ walked = <<>>
    /\ outFiles = <<>>

WalkedFiles == {walked[i].file : i \in 1..Len(walked)}

\* lines 90-100 for one file; save_content_to_json (lines 30-37) either writes
\* the file or catches the error and prints it
ProcessFile(file, readable, pre, saveOk) ==
    LET pre_contents == ExtractPreContent(readable, pre)
        saved == Truthy(pre_contents) /\ saveOk
    IN  /\ Len(walked) < MaxFiles
        /\ file \notin WalkedFiles
        /\ outFiles' = IF saved
                       THEN WriteFile(outFiles, JsonPath(file),
                                      [content |-> ProcessContent(pre_contents)])
                       ELSE outFiles
        /\ walked' = Append(walked, [file |-> file, readable |-> readable,
                                     wrote |-> saved,
                                     records |-> IF saved THEN ProcessContent(pre_contents)
                                                 ELSE <<>>])
        /\ UNCHANGED <<parserVars, retryVars, glossaryVars, driverVars>>

ProcessReadableFile ==
    \E file \in InputFiles, pre \in PreContentChoices, saveOk \in BOOLEAN :
        ProcessFile(file, TRUE, pre, saveOk)

ProcessUnreadableFile ==
    \E file \in InputFiles, saveOk \in BOOLEAN :
        ProcessFile(file, FALSE, <<>>, saveOk)

FolderNext ==
    \/ ProcessReadableFile
    \/ ProcessUnreadableFile

SpecFolder == FolderInit /\ [][FolderNext]_vars

-----------------------------------------------------------------------------
(* create_raw_translation_vn_nss_json as a state machine *)

DriverInit ==
    /\ ParserStart
    /\ RetryIdle
    /\ GlossaryIdle
    /\ FolderIdle
    /\ dpc = "walk"
    /\ d_walked = <<>>
    /\ d_file = NoFile
    /\ d_index = 0
    /\ element = SrcEmpty
    /\ response = <<>>
    /\ collected_json = <<>>
    /\ spliced = <<>>
    /\ d_failure_log = <<>>
    /\ translated = <<>>

DriverFrame == UNCHANGED <<parserVars, glossaryVars, folderVars>>

\* lines 201-206: the walk yields the next file
OpenFile ==
    /\ dpc = "walk"
    /\ Len(d_walked) < MaxTFiles
    /\ \E file \in TranslatorFiles :
          /\ \A i \in 1..Len(d_walked) : d_walked[i] # file
          /\ d_file' = file
    /\ collected_json' = <<>>
    /\ spliced' = <<>>
    /\ d_index' = 0
    /\ dpc' = "elements"
    /\ UNCHANGED <<d_walked, element, response, d_failure_log, translated, retryVars>>
    /\ DriverFrame

\* lines 207-209: the generator yields a falsy element, which is passed over
SkipElement ==
    /\ dpc = "elements"
    /\ d_index < MaxElements
    /\ \E el \in SourceElements : ~TruthyElement(el) /\ element' = el
    /\ d_index' = d_index + 1
    /\ UNCHANGED <<dpc, d_walked, d_file, response, collected_json, spliced,
                   d_failure_log, translated, retryVars>>
    /\ DriverFrame

\* lines 207-221: the generator yields an element, which is sent for translation
TranslateElement ==
    /\ dpc = "elements"
    /\ d_index < MaxElements
    /\ \E el \in SourceElements : TruthyElement(el) /\ element' = el
    /\ \E resp \in TranslationReplies : response' = resp
    /\ dpc' = "respond"
    /\ UNCHANGED <<d_walked, d_file, d_index, collected_json, spliced, d_failure_log,
                   translated, retryVars>>
    /\ DriverFrame

\* lines 223-224 with no fenced region in the response: nothing is done
NoJsonBlock ==
    /\ dpc = "respond"
    /\ FindAll(response) = <<>>
    /\ d_index' = d_index + 1
    /\ dpc' = "elements"
    /\ UNCHANGED <<d_walked, d_file, element, response, collected_json, spliced,
                   d_failure_log, translated, retryVars>>
    /\ DriverFrame

\* lines 223-226
LoadJsonBlock ==
    /\ dpc = "respond"
    /\ FindAll(response) # <<>>
    /\ CallLoadJsonWithReTry(d_file.name, d_index, FindAll(response)[1])
    /\ dpc' = "loading"
    /\ UNCHANGED <<d_walked, d_file, d_index, element, response, collected_json, spliced,
                   d_failure_log, translated>>
    /\ DriverFrame

DriverTryLoad    == dpc = "loading" /\ TryLoad    /\ UNCHANGED driverVars /\ DriverFrame
DriverRequestFix == dpc = "loading" /\ RequestFix /\ UNCHANGED driverVars /\ DriverFrame
DriverRetryLoad  == dpc = "loading" /\ RetryLoad  /\ UNCHANGED driverVars /\ DriverFrame

LogFailureRaises ==
    /\ dpc = "loading"
    /\ rpc = "return"
    /\ failure # NoFailure
    /\ ReturnFromRetry
    /\ dpc' = "crashed"
    /\ UNCHANGED <<d_walked, d_file, d_index, element, response, collected_json, spliced,
                   d_failure_log, translated>>
    /\ DriverFrame

\* lines 228-230
LogFailure ==
    /\ dpc = "loading"
    /\ rpc = "return"
    /\ failure # NoFailure
    /\ ReturnFromRetry
    /\ d_failure_log' = Append(d_failure_log, failure[1])
    /\ d_index' = d_index + 1
    /\ dpc' = "elements"
    /\ UNCHANGED <<d_walked, d_file, element, response, collected_json, spliced, translated>>
    /\ DriverFrame

\* lines 231-236 when json_data is a dict
CollectElement ==
    /\ dpc = "loading"
    /\ rpc = "return"
    /\ failure = NoFailure
    /\ json_data.t = "dict"
    /\ ReturnFromRetry
    /\ collected_json' = Append(collected_json, Splice(json_data, element))
    /\ spliced' = Append(spliced, [src |-> element, payload |-> json_data])
    /\ d_index' = d_index + 1
    /\ dpc' = "elements"
    /\ UNCHANGED <<d_walked, d_file, element, response, d_failure_log, translated>>
    /\ DriverFrame

\* line 233 when json_data is a list or None: the item assignment raises
\* TypeError, which nothing catches
CollectRaises ==
    /\ dpc = "loading"
    /\ rpc = "return"
    /\ failure = NoFailure
    /\ json_data.t # "dict"
    /\ ReturnFromRetry
    /\ dpc' = "crashed"
    /\ UNCHANGED <<d_walked, d_file, d_index, element, response, collected_json, spliced,
                   d_failure_log, translated>>
    /\ DriverFrame

\* lines 238-243: the generator is exhausted, the file's results are written
CloseFile ==
    /\ dpc = "elements"
    /\ translated' = WriteFile(translated, TranslatedPath(d_file),
                               [content |-> collected_json])
    /\ d_walked' = Append(d_walked, d_file)
    /\ dpc' = "walk"
    /\ UNCHANGED <<d_file, d_index, element, response, collected_json, spliced,
                   d_failure_log, retryVars>>
    /\ DriverFrame

DriverNext ==
    \/ OpenFile
    \/ SkipElement
    \/ TranslateElement
    \/ NoJsonBlock
    \/ LoadJsonBlock
    \/ DriverTryLoad
    \/ DriverRequestFix
    \/ DriverRetryLoad
    \/ LogFailure
    \/ CollectElement
    \/ CollectRaises
    \/ CloseFile

SpecDriver == DriverInit /\ [][DriverNext]_vars

-----------------------------------------------------------------------------
(* Claims about process_content *)

\* the step that handles one more line of the entry
TakesLine == ppc = "lines" /\ ppc' = "lines" /\ Len(consumed') = Len(consumed) + 1

NameLineN  == <<NameOpen, "N", NameClose>>
HelloLine  == <<QuoteOpen, "H", QuoteClose>>
WorldLine  == <<QuoteOpen, "w", QuoteClose>>

\* C1: the record emitted for any entry has len(Name) = len(text) = len(voice tag),
\* trailing gaps included.  (Stated as the claim states it; process_content has
\* no padding step before line 83.)
C1_AlignedAtEmit ==
    ppc = "done" =>
        /\ Len(Last(processed).Name) = Len(Last(processed).text)
        /\ Len(Last(processed).voice_tag) = Len(Last(processed).text)

\* C2: the entry [[N]] / ((H)) / ((w)) is emitted as Name = [[[N]], None],
\* text = [((H)), ((w))], voice tag = [None, None], text label = None.
C2_Scenario ==
    (ppc = "done" /\ consumed = <<NameLineN, HelloLine, WorldLine>>) =>
        Last(processed) = [text_label |-> None,
                           Name       |-> <<NameLineN, None>>,
                           voice_tag  |-> <<None, None>>,
                           text       |-> <<HelloLine, WorldLine>>]

C2_Witness ==
    /\ ppc = "done"
    /\ consumed = <<NameLineN, HelloLine, WorldLine>>
    /\ Len(processed) = 1

\* C3: a plain line arriving while text is non-empty and its last entry holds no
\* closing quote marker is joined to that entry with a line break; len(text),
\* Name, voice tag and text label do not change.
C3_Continuation ==
    [][ ( /\ TakesLine
          /\ IsPlain(Last(consumed'))
          /\ Len(ele.text) > 0
          /\ ~Contains(Last(ele.text), QuoteClose) )
        => ( /\ Len(ele'.text) = Len(ele.text)
             /\ Last(ele'.text) = Last(ele.text) \o <<LineBreak>> \o Last(consumed')
             /\ \A i \in 1..(Len(ele.text) - 1) : ele'.text[i] = ele.text[i]
             /\ ele'.Name = ele.Name
             /\ ele'.voice_tag = ele.voice_tag
             /\ ele'.text_label = ele.text_label ) ]_vars

C3_Witness ==
    /\ consumed = << <<QuoteOpen, "H">>, <<"w", QuoteClose>> >>
    /\ ele.text = << <<QuoteOpen, "H", LineBreak, "w", QuoteClose>> >>
    /\ ele.Name = <<None>>

\* C4: a name-bracket line (rule 3) appends exactly the line as one new entry of
\* Name, whatever Name held before, and leaves text, voice tag and text label
\* unchanged.
C4_NameOpensSlot ==
    [][ (TakesLine /\ IsName(Last(consumed')))
        => ( /\ ele'.Name = Append(ele.Name, Last(consumed'))
             /\ ele'.text = ele.text
             /\ ele'.voice_tag = ele.voice_tag
             /\ ele'.text_label = ele.text_label ) ]_vars

\* two name-bracket lines and no utterance after them
C4_Witness ==
    /\ ppc = "done"
    /\ consumed = <<NameLineN, NameLineN>>
    /\ Last(processed).Name = <<NameLineN, NameLineN>>
    /\ Last(processed).text = <<>>

-----------------------------------------------------------------------------
(* Claims about extract_json_from_text, loadJsonWithReTry and the glossary *)

ExtractionOver == gpc \in {"merge", "load", "done", "crashed"}

\* region i (1-based) of json_blocks parses as it stands
RegionParses(i) == JsonLoads(Strip(json_blocks[i])).ok

FailedIndexes == {failure_log[k].index : k \in 1..Len(failure_log)}

\* C5: extraction of a text with N fenced regions yields N results, one per
\* region: a region that parses is never dropped or flagged because another
\* region failed, its value sits in combined_list in input order, and the
\* failures logged are those of the failed regions, in input order.
C5_OneResultPerRegion ==
    /\ (gpc = "blocks" /\ rpc = "idle") =>
           Len(combined_list) + Len(failure_log) = bidx
    /\ ExtractionOver =>
        /\ Len(combined_list) + Len(failure_log) = Len(json_blocks)
        /\ \A k \in 1..Len(failure_log) :
              /\ failure_log[k].index \in 0..(Len(json_blocks) - 1)
              /\ ~RegionParses(failure_log[k].index + 1)
              /\ \A h \in 1..(k - 1) : failure_log[h].index < failure_log[k].index
        /\ \A i \in 1..Len(json_blocks) :
              RegionParses(i) =>
                 /\ (i - 1) \notin FailedIndexes
                 /\ combined_list[i - Cardinality({f \in FailedIndexes : f < i - 1})]
                        = JsonLoads(Strip(json_blocks[i])).v

\* three regions, the second malformed and not repaired, the others parsed
C5_Witness ==
    /\ ExtractionOver
    /\ Len(json_blocks) = 3
    /\ RegionParses(1) /\ ~RegionParses(2) /\ RegionParses(3)
    /\ FailedIndexes = {1}
    /\ Len(combined_list) = 2

\* C6: one invocation of loadJsonWithReTry sends at most one repair request and
\* makes at most two parse attempts; when both the original parse and the parse
\* of the repair reply fail, the failure is produced after exactly two parse
\* attempts and exactly one repair request.
C6_OneRepair ==
    /\ nFix <= 1
    /\ nLoads <= 2
    /\ (rpc = "return" /\ failure # NoFailure) => nFix = 1
    /\ (rpc = "return" /\ failure # NoFailure /\ FindAll(reply) # <<>>) => nLoads = 2
    /\ (failure # NoFailure) => rpc \in {"return", "idle"}

C6_Witness ==
    /\ rpc = "return"
    /\ failure # NoFailure
    /\ FindAll(reply) # <<>>
    /\ nLoads = 2
    /\ nFix = 1

\* C7: when loadJsonWithReTry ends with a failure it returns json_data = None
\* and a failure message made of the file name, the index, the last body it
\* tried to parse and the last error raised: the repair reply's first region
\* and its parse error when the reply has a region, else the original body and
\* the IndexError of line 363.
C7_FailureRecord ==
    (rpc = "return" /\ failure # NoFailure) =>
        /\ json_data = JNone
        /\ Len(failure) = 1
        /\ failure[1].index = r_index
        /\ failure[1].file = r_file
        /\ failure[1].body = json_str
        /\ failure[1].error # NoError
        /\ IF FindAll(reply) # <<>>
           THEN /\ json_str = FindAll(reply)[1]
                /\ failure[1].error = JsonLoads(Strip(json_str)).err
           ELSE /\ json_str = arg_str
                /\ failure[1].error = IndexError

\* the second region of a file fails and so does the region of the repair reply
C7_Witness ==
    /\ rpc = "return"
    /\ failure # NoFailure
    /\ r_index = 1
    /\ FindAll(reply) # <<>>
    /\ failure[1].body = <<"[", "k2:A">>
    /\ failure[1].error.msg = "Expecting , delimiter"

EntriesNamed(entries, k) == {j \in 1..Len(entries) : NameOf(entries[j]) = k}

FirstNamed(flat, k) ==
    CHOOSE i \in 1..Len(flat) :
        NameOf(flat[i]) = k /\ \A h \in 1..(i - 1) : NameOf(flat[h]) # k

\* C8: the merged glossary holds exactly one entry per key of the extraction
\* batches, with the values of the key's first occurrence; merging the batches
\* twice over gives the same entries; the loaded glossary has one value per key,
\* the first occurrence's.
C8_GlossaryMerge ==
    gpc \in {"load", "done"} =>
        LET flat == Flatten(combined_list) IN
        /\ \A i \in 1..Len(flat) :
              Cardinality(EntriesNamed(glossaryFile, NameOf(flat[i]))) = 1
        /\ \A j \in 1..Len(glossaryFile) :
              /\ EntriesNamed(flat, NameOf(glossaryFile[j])) # {}
              /\ LET first == flat[FirstNamed(flat, NameOf(glossaryFile[j]))] IN
                 \A k \in DOMAIN first.fields :
                     glossaryFile[j].fields[k] = first.fields[k]
        /\ MergeEntries(combined_list \o combined_list) = glossaryFile
        /\ gpc = "done" =>
              /\ DOMAIN loaded_glossary = {NameOf(flat[i]).s : i \in 1..Len(flat)}
              /\ \A i \in 1..Len(flat) :
                    loaded_glossary[NameOf(flat[i]).s].actualname
                        = flat[FirstNamed(flat, NameOf(flat[i]))].fields["actualname"]

\* batches [k1:A], [k1:B, k2:A], [k1:A]: k1 occurs three times with two values
C8_Witness ==
    /\ gpc = "done"
    /\ Len(combined_list) = 3
    /\ combined_list[1] = combined_list[3]
    /\ Len(Flatten(combined_list)) = 4
    /\ Len(glossaryFile) = 2
    /\ loaded_glossary["k1"].actualname = JStr("A")

\* the parse of the body loadJsonWithReTry was called with
DirectParse == JsonLoads(Strip(arg_str))

\* the parse of the first fenced region of the repair reply
RepairParse == JsonLoads(Strip(FindAll(reply)[1]))

\* C18: loadJsonWithReTry returns in exactly one of three ways.  Parsed: the
\* body parses, the value returned is its parse, there is no failure and the
\* generation service was not called.  Recovered: the body does not parse, the
\* first fenced region of the one repair reply does, the value returned is
\* that region's parse and there is no failure.  Failed: in every other case,
\* a repair reply without fenced region included, there is a failure and the
\* value returned is None.
C18_OneTerminalState ==
    rpc = "return" =>
        IF DirectParse.ok
        THEN /\ failure = NoFailure
             /\ json_data = DirectParse.v
             /\ nFix = 0
        ELSE /\ nFix = 1
             /\ IF FindAll(reply) # <<>> /\ RepairParse.ok
                THEN /\ failure = NoFailure
                     /\ json_data = RepairParse.v
                ELSE /\ failure # NoFailure
                     /\ json_data = JNone

\* Recovered from a reply whose first region parses and whose second does not
C18_Witness ==
    /\ rpc = "return"
    /\ ~DirectParse.ok
    /\ Len(FindAll(reply)) = 2
    /\ RepairParse.ok
    /\ ~JsonLoads(Strip(FindAll(reply)[2])).ok
    /\ failure = NoFailure
    /\ json_data = RepairParse.v
    /\ json_data # JNone

-----------------------------------------------------------------------------
(* Claims about the translation driver and process_folder *)

RecordKeys == {"text label", "Name", "voice tag", "text"}

\* C9: every record in a file's output set carries text label, Name and voice
\* tag identical to its source element's, whatever the payload holds, and only
\* text is taken from the payload: no other field of the output comes from it.
\* (Stated as the claim states it; lines 233-236 write three keys onto the
\* payload dict and append that dict.)
C9_OnlyTextFromPayload ==
    \A i \in 1..Len(collected_json) :
        LET out == collected_json[i]
            src == spliced[i].src
        IN  /\ out.fields["text label"] = src.fields["text label"]
            /\ out.fields["Name"] = src.fields["Name"]
            /\ out.fields["voice tag"] = src.fields["voice tag"]
            /\ \A k \in (DOMAIN out.fields) \ {"text"} :
                  k \in DOMAIN src.fields /\ out.fields[k] = src.fields[k]

\* C10: a file whose reading or decoding fails is skipped: no records are
\* derived from it and no JSON file is written for it.  (Stated as the claim
\* states it; line 95 tests only the truth value of what line 27 returned.)
C10_UnreadableSkipped ==
    \A i \in 1..Len(walked) :
        ~walked[i].readable => (~walked[i].wrote /\ walked[i].records = <<>>)

\* the step in which the driver takes up what loadJsonWithReTry returned
DriverTakesResult == dpc = "loading" /\ rpc = "return" /\ dpc' # "loading"

\* C11: when loadJsonWithReTry returns a failure for an element, the driver
\* appends that failure to failure_log, raises nothing, adds no record to
\* collected_json and writes no file in that step, and goes on to the next
\* element of the same file exactly as after a collected element; the driver
\* never stops on a returned failure.
C11_FailureSkipsElement ==
    [][ /\ (DriverTakesResult /\ failure # NoFailure) =>
              /\ d_failure_log' = Append(d_failure_log, failure[1])
              /\ collected_json' = collected_json
              /\ translated' = translated
              /\ d_file' = d_file
              /\ d_walked' = d_walked
              /\ d_index' = d_index + 1
              /\ dpc' = "elements"
        /\ (dpc # "crashed" /\ dpc' = "crashed") => failure = NoFailure ]_vars

\* element 0 of the first file failed; element 1 of that file was collected
\* and written; the second file is open and has a collected record
C11_Witness ==
    /\ Len(d_walked) = 1
    /\ Len(d_failure_log) = 1
    /\ d_failure_log[1].index = 0
    /\ d_failure_log[1].file = d_walked[1].name
    /\ Len(translated[TranslatedPath(d_walked[1])].content) = 1
    /\ dpc = "elements"
    /\ d_file # d_walked[1]
    /\ Len(collected_json) = 1

\* the label lines among the lines taken so far, in order
LabelLines == SelectSeq(consumed, IsLabel)

\* C13 as stated: with more than one label line in the entry, the emitted
\* label is the first of them.
C13_FirstLabelWins ==
    (ppc = "done" /\ LabelLines # <<>>) => Last(processed).text_label = Head(LabelLines)

\* C13: text label is always the last label line taken so far (line 58
\* overwrites), and None while the entry has had no label line.
C13_LastLabelWins ==
    /\ ele.text_label = IF LabelLines = <<>> THEN None ELSE Last(LabelLines)
    /\ ppc = "done" => Last(processed).text_label = ele.text_label

\* two different label lines with an utterance between them
C13_Witness ==
    /\ ppc = "done"
    /\ consumed = << <<LabelMarker>>, HelloLine, <<LabelMarker, QuoteOpen>> >>
    /\ Last(processed).text_label = <<LabelMarker, QuoteOpen>>

\* s is t, or t with one None appended
SameOrPadded(s, t) == s = t \/ s = Append(t, None)

\* C14: a non-empty line is handled by one rule only, the first whose marker
\* it contains in the order label, quote-open, name-bracket, voice-cue, plain:
\* a label line only sets text label, whatever else it contains; a quote line
\* without label marker is appended to text and never to Name or voice tag,
\* also when it contains a name-bracket marker; a name line is appended to
\* Name only; a voice line to voice tag only; a plain line goes to text only.
C14_FirstMatchingRule ==
    [][ TakesLine =>
        LET line == Last(consumed') IN
        IF line = <<>> THEN ele' = ele
        ELSE IF Contains(line, LabelMarker)
        THEN ele' = [ele EXCEPT !.text_label = line]
        ELSE /\ ele'.text_label = ele.text_label
             /\ IF Contains(line, QuoteOpen)
                THEN /\ ele'.text = Append(ele.text, line)
                     /\ SameOrPadded(ele'.Name, ele.Name)
                     /\ SameOrPadded(ele'.voice_tag, ele.voice_tag)
                ELSE IF Contains(line, NameOpen)
                THEN /\ ele'.Name = Append(ele.Name, line)
                     /\ ele'.text = ele.text
                     /\ ele'.voice_tag = ele.voice_tag
                ELSE IF Contains(line, VoiceMarker)
                THEN /\ ele'.voice_tag = Append(ele.voice_tag, line)
                     /\ ele'.text = ele.text
                     /\ SameOrPadded(ele'.Name, ele.Name)
                ELSE /\ SameOrPadded(ele'.Name, ele.Name)
                     /\ SameOrPadded(ele'.voice_tag, ele.voice_tag)
                     /\ \/ ele'.text = Append(ele.text, line)
                        \/ /\ Len(ele.text) > 0
                           /\ ele'.text = [ele.text EXCEPT ![Len(ele.text)] =
                                               @ \o <<LineBreak>> \o line] ]_vars

\* a line with label and quote-open markers, then one with quote-open and
\* name-bracket markers
C14_Witness ==
    /\ consumed = << <<LabelMarker, QuoteOpen>>, <<QuoteOpen, NameOpen>> >>
    /\ ele = [text_label |-> <<LabelMarker, QuoteOpen>>,
              Name       |-> <<None>>,
              voice_tag  |-> <<None>>,
              text       |-> << <<QuoteOpen, NameOpen>> >>]

\* C15 as stated: on a quote line, None is appended to Name only when Name has
\* fewer entries than text will have once the line is appended, and likewise,
\* independently, to voice tag; with that many entries or more nothing is
\* appended; the line is always appended to text.  (Lines 60 and 62 test
\* with != where the claim says fewer.)
C15_PadOnlyWhenShorter ==
    [][ (TakesLine /\ IsQuote(Last(consumed'))) =>
          /\ ele'.text = Append(ele.text, Last(consumed'))
          /\ ele'.Name = IF Len(ele.Name) < Len(ele.text) + 1
                          THEN Append(ele.Name, None) ELSE ele.Name
          /\ ele'.voice_tag = IF Len(ele.voice_tag) < Len(ele.text) + 1
                               THEN Append(ele.voice_tag, None) ELSE ele.voice_tag ]_vars

\* C16 as stated: a voice line is appended to voice tag, text and text label
\* stay as they are, and None is appended to Name exactly when Name has fewer
\* than len(text) + 1 entries, so that two voice lines in a row pad Name at
\* most once.  (Line 68 compares len(Name) with len(voice tag) + 1.)
C16_VoicePadsLikeQuote ==
    [][ (TakesLine /\ IsVoice(Last(consumed'))) =>
          /\ ele'.voice_tag = Append(ele.voice_tag, Last(consumed'))
          /\ ele'.text = ele.text
          /\ ele'.text_label = ele.text_label
          /\ ele'.Name = IF Len(ele.Name) < Len(ele.text) + 1
                          THEN Append(ele.Name, None) ELSE ele.Name ]_vars

\* C17 as stated: a plain line arriving while text is non-empty opens a new
\* entry of text exactly when the last entry ends with the closing quote
\* marker; when the last entry only contains the marker followed by other
\* characters the line is joined to it.  (Line 74 tests with 'in'.)
C17_NewSlotOnlyAfterClosedEnd ==
    [][ (TakesLine /\ IsPlain(Last(consumed')) /\ Len(ele.text) > 0) =>
          IF Last(Last(ele.text)) = QuoteClose
          THEN ele'.text = Append(ele.text, Last(consumed'))
          ELSE ele'.text = [ele.text EXCEPT ![Len(ele.text)] =
                               @ \o <<LineBreak>> \o Last(consumed')] ]_vars

\* the entries of text taken apart at their line breaks, in order
RECURSIVE TextLines(_)
TextLines(text) ==
    IF text = <<>> THEN <<>> ELSE SplitLines(Head(text)) \o TextLines(Tail(text))

Present(s) == SelectSeq(s, LAMBDA x : x # None)

\* C20: no line is lost, duplicated or reordered.  At every point of an entry,
\* and in the record emitted for it, the entries of text taken apart at their
\* line breaks are the quote and plain lines taken so far, in order; the
\* entries of Name other than None are the name lines in order; the entries
\* of voice tag other than None are the voice lines in order; text holds no
\* None.
C20_NoLineLostOrMoved ==
    /\ TextLines(ele.text) = SelectSeq(consumed, LAMBDA l : IsQuote(l) \/ IsPlain(l))
    /\ Present(ele.Name) = SelectSeq(consumed, IsName)
    /\ Present(ele.voice_tag) = SelectSeq(consumed, IsVoice)
    /\ \A i \in 1..Len(ele.text) : ele.text[i] # None
    /\ ppc = "done" => Last(processed) = ele

\* a name, a voice cue, an open quote and its continuation
C20_Witness ==
    /\ ppc = "done"
    /\ consumed = <<NameLineN, <<VoiceMarker>>, <<QuoteOpen, "H">>, <<"w", QuoteClose>> >>
    /\ Last(processed) = [text_label |-> None,
                          Name       |-> <<NameLineN>>,
                          voice_tag  |-> << <<VoiceMarker>> >>,
                          text       |-> << <<QuoteOpen, "H", LineBreak, "w", QuoteClose>> >>]

-----------------------------------------------------------------------------
(* Claims about process_content over several entries *)

\* the non-empty lines of an entry
NonEmptyLines(lines) == SelectSeq(lines, LAMBDA l : ~IsEmpty(l))

\* every line a record holds, continuation entries taken apart
RecordLines(e) ==
    {e.text_label} \cup {e.Name[i] : i \in 1..Len(e.Name)}
        \cup {e.voice_tag[i] : i \in 1..Len(e.voice_tag)}
        \cup UNION { {SplitLines(e.text[i])[j] : j \in 1..Len(SplitLines(e.text[i]))}
                     : i \in 1..Len(e.text) }

\* C12: process_content returns one record per entry, in entry order; each
\* record is what the rules make of that entry's non-empty lines starting from
\* the empty record, every line it holds is a line of its own entry, and an
\* entry with no non-empty line gives the empty record.
C12_OneRecordPerBlock ==
    /\ Len(processed) = Len(blocks)
    /\ ppc = "lines" => ele = ProcessLines(EmptyEle, NonEmptyLines(consumed))
    /\ \A i \in 1..Len(blocks) :
          /\ processed[i] = ProcessLines(EmptyEle, NonEmptyLines(blocks[i]))
          /\ RecordLines(processed[i]) \subseteq
                 {None} \cup {blocks[i][j] : j \in 1..Len(blocks[i])}
          /\ NonEmptyLines(blocks[i]) = <<>> => processed[i] = EmptyEle

\* three entries: a label and an open quote; an empty line only; a plain
\* line, which starts the text of its own record
C12_Witness ==
    /\ ppc = "done"
    /\ blocks = << << <<LabelMarker>>, <<QuoteOpen, "H">> >>,
                   << <<>> >>,
                   << <<"w">> >> >>
    /\ processed[2] = EmptyEle
    /\ processed[3] = [EmptyEle EXCEPT !.text = << <<"w">> >>]

\* C19 as stated: whenever the first fenced region of an element's response
\* parses, whether to a dict, a list or null, the driver finishes that element
\* with either a record added to collected_json or a failure added to
\* failure_log, and goes on to the next element.  (Lines 233-235 assign items
\* on json_data whatever its type.)
C19_AnyPayloadHandled ==
    [][ (DriverTakesResult /\ DirectParse.ok) =>
          /\ dpc' = "elements"
          /\ d_index' = d_index + 1
          /\ \/ Len(collected_json') = Len(collected_json) + 1
             \/ Len(d_failure_log') = Len(d_failure_log) + 1 ]_vars

\* the translator has written one file per input file it has finished
TranslatorOwnOutputPerFile == Cardinality(DOMAIN translated) = Len(d_walked)

\* the extractor has written one file per input file it saved records for,
\* and that file still holds the input file's own records
ExtractorOwnOutputPerFile ==
    /\ Cardinality(DOMAIN outFiles) = Cardinality({i \in 1..Len(walked) : walked[i].wrote})
    /\ \A i \in 1..Len(walked) :
          walked[i].wrote => outFiles[JsonPath(walked[i].file)].content = walked[i].records

\* C21 as stated: every input file of a run has an output file of its own; two
\* distinct input files are never written to the same path, so no file's
\* results are overwritten by another's.  (Line 242 of the translator joins
\* the output folder with file_name only, and line 97 of the extractor with
\* file_name stripped of its extension, whatever root the walk is in.)
C21_OwnOutputPerFile == TranslatorOwnOutputPerFile /\ ExtractorOwnOutputPerFile

\* the driver is between the submission of an element and its filing
HandlingElement == dpc \in {"respond", "loading"}

\* C22 as stated: each non-empty element sent for translation ends as exactly
\* one of a record in collected_json or an entry in failure_log, so that their
\* number grows by one per element, also when the response has no fenced
\* region.  (Line 224 has no else branch.)
C22_EveryElementAccounted ==
    [][ /\ (HandlingElement /\ ~HandlingElement') =>
              /\ dpc' = "elements"
              /\ Len(collected_json') + Len(d_failure_log')
                     = Len(collected_json) + Len(d_failure_log) + 1
        /\ (dpc = "elements" /\ dpc' = "elements") =>
              Len(collected_json') + Len(d_failure_log')
                  = Len(collected_json) + Len(d_failure_log) ]_vars

====
